---- MODULE Spec2Model ----
(***************************************************************************)
(* FrozenPacks/ModpackUtils: the web synchronisation action.               *)
(*   src/src/index.ts  run / web / the top-level catch handler             *)
(*   src/src/web.ts    getApi, updateWeb, updateData, updateAssets,        *)
(*                     updatePages, createRelease                          *)
(* One Node.js process, one event loop.  A model step is one macrotask:    *)
(* the start of the script, or the arrival of one HTTP response, together  *)
(* with every synchronous statement and every promise reaction (microtask) *)
(* that it triggers before the event loop takes the next response.         *)
(***************************************************************************)
EXTENDS Integers, Sequences, FiniteSets, TLC

(* ------------------------------ bounds -------------------------------- *)
\* most page files in web/pages
MaxPages == 3
\* most files in web/assets
MaxAssets == 2
\* most addons listed in minecraftinstance.json (and most jars under mods/)
MaxAddons == 2

(* ------------------------------ paths --------------------------------- *)
\* A path is a sequence of segments; a segment keeps its extension apart,
\* as path.extname / path.basename see it.
Seg(base, ext) == [base |-> base, ext |-> ext]

\* path.join: concatenates the segments; an empty argument ("" as dir)
\* contributes nothing.
join(a, b) == a \o b

\* path.basename: the last segment of the path, extension included.
basename(p) == p[Len(p)]

\* path.extname: the extension of the last segment.
extname(p) == p[Len(p)].ext

webDir == <<Seg("web", "")>>

(* ------------------------------- errors ------------------------------- *)
Error(message) == [isAxiosError |-> FALSE, url |-> <<>>, message |-> message]
AxiosError(url) == [isAxiosError |-> TRUE, url |-> url, message |-> "Request failed"]
NoError == Error("")

InputRequired(name) == [isAxiosError |-> FALSE, url |-> <<name>>,
                        message |-> "Input required and not supplied"]
ManifestMissing == Error("minecraftinstance.json file missing")
\* JSON.parse and yaml.parse throw errors of their own classes.
SyntaxError == Error("SyntaxError")
YAMLError == Error("YAMLError")
\* fs: no such path; readdirSync of a file; readFileSync of a directory.
ENOENT == Error("ENOENT")
ENOTDIR == Error("ENOTDIR")
EISDIR == Error("EISDIR")
TitleOfNull == Error("TypeError: Cannot read property 'title' of null")
InstalledAddonsOfNull == Error("TypeError: Cannot read property 'installedAddons' of null")
FilterOfUndefined == Error("TypeError: Cannot read property 'filter' of undefined")
InvalidAction == Error("Invalid action")

isAxiosError(e) == e.isAxiosError

(* --------------------------- file contents ---------------------------- *)
\* A parsed value: its kind, the keys it has, and what they hold.
NoValue == [kind |-> "undefined", keys |-> {}, title |-> "undefined", installedAddons |-> <<>>]
Null == [kind |-> "null", keys |-> {}, title |-> "undefined", installedAddons |-> <<>>]
EmptyObject == [kind |-> "object", keys |-> {}, title |-> "undefined", installedAddons |-> <<>>]
Obj(title) == [kind |-> "object", keys |-> {"title"}, title |-> title, installedAddons |-> <<>>]
Manifest(addons) == [kind |-> "object", keys |-> {"installedAddons"}, title |-> "undefined",
                     installedAddons |-> addons]

\* The text of a file: the syntax it is written in and the value it denotes.
\* "json": JSON that is YAML as well; "json-dup": JSON with a key repeated
\* in a mapping, which JSON.parse takes (the last one wins) and yaml.parse
\* refuses; "yaml": YAML that is not JSON; anything else is neither.
Text(syntax, value) == [syntax |-> syntax, value |-> value]
NoText == Text("none", NoValue)

\* The outcome of a call that returns a value or throws.
Returned(value) == [threw |-> FALSE, err |-> NoError, value |-> value]
Threw(err, value) == [threw |-> TRUE, err |-> err, value |-> value]

\* JSON.parse: only JSON text parses; anything else throws a SyntaxError.
JSONparse(text) ==
    IF text.syntax \in {"json", "json-dup"}
    THEN Returned(text.value)
    ELSE Threw(SyntaxError, NoValue)

\* yaml.parse: YAML text parses, and so does JSON text unless a mapping
\* repeats a key; anything else throws.
YAMLparse(text) ==
    IF text.syntax \in {"yaml", "json"}
    THEN Returned(text.value)
    ELSE Threw(YAMLError, NoValue)

(* ---------------------------- file system ----------------------------- *)
Dir(entries) == [type |-> "dir", entries |-> entries, text |-> NoText]
File(text) == [type |-> "file", entries |-> <<>>, text |-> text]

\* fs.existsSync / fs.readdirSync / fs.readFileSync on a tree t: a function
\* from the paths that exist to their nodes. readdirSync throws on a path
\* that is not a directory, readFileSync on one that is not a file.
existsSync(t, p) == p \in DOMAIN t
readdirSync(t, p) ==
    IF p \notin DOMAIN t THEN Threw(ENOENT, <<>>)
    ELSE IF t[p].type # "dir" THEN Threw(ENOTDIR, <<>>)
    ELSE Returned(t[p].entries)
readFileSync(t, p) ==
    IF p \notin DOMAIN t THEN Threw(ENOENT, NoText)
    ELSE IF t[p].type # "file" THEN Threw(EISDIR, NoText)
    ELSE Returned(t[p].text)

\* JSON.parse(readFileSync(p).toString()) and yaml.parse(...): the read
\* throws, or the parse of what was read does.
readJSON(t, p) ==
    LET content == readFileSync(t, p)
    IN  IF content.threw THEN Threw(content.err, NoValue) ELSE JSONparse(content.value)
readYAML(t, p) ==
    LET content == readFileSync(t, p)
    IN  IF content.threw THEN Threw(content.err, NoValue) ELSE YAMLparse(content.value)

\* A directory dir holding the entries fs (a sequence of [name, node]).
DirTree(dir, fs) ==
    [p \in {dir} \cup {join(dir, <<fs[i].name>>) : i \in DOMAIN fs} |->
        IF p = dir
        THEN Dir([i \in DOMAIN fs |-> fs[i].name])
        ELSE fs[CHOOSE i \in DOMAIN fs : join(dir, <<fs[i].name>>) = p].node]

EmptyTree == [p \in {} |-> Dir(<<>>)]

(* ------------------------- the inputs explored ------------------------ *)
\* The entries of a directory listing keep the order of this universe.
RECURSIVE Listing(_, _)
Listing(universe, S) ==
    IF S = {} THEN <<>>
    ELSE LET i == CHOOSE x \in S : \A y \in S : x <= y
         IN <<universe[i]>> \o Listing(universe, S \ {i})

Listings(universe, max) ==
    {Listing(universe, S) : S \in {T \in SUBSET (1..Len(universe)) : Cardinality(T) <= max}}

Min(a, b) == IF a < b THEN a ELSE b

\* Page entries: two well-formed files, one of an unrecognised extension,
\* one .json file that is not JSON, one .yml file holding the YAML document
\* null, a subdirectory, and one .yml file holding JSON that repeats a key.
PageFiles == <<
    [name |-> Seg("about", ".yml"),  node |-> File(Text("yaml", Obj("About")))],
    [name |-> Seg("broken", ".json"), node |-> File(Text("yaml", Obj("Broken")))],
    [name |-> Seg("empty", ".yml"),  node |-> File(Text("yaml", Null))],
    [name |-> Seg("index", ".json"), node |-> File(Text("json", Obj("Home")))],
    [name |-> Seg("notes", ".txt"),  node |-> File(Text("garbage", NoValue))],
    [name |-> Seg("sub", ""),        node |-> Dir(<<>>)],
    [name |-> Seg("twice", ".yml"),  node |-> File(Text("json-dup", Obj("Twice")))] >>

AssetNames == <<Seg("banner", ".png"), Seg("icon", ".png"), Seg("logo", ".png"),
                Seg("splash", ".jpg")>>

ModNames == <<Seg("mod1", ".jar"), Seg("mod2", ".jar"), Seg("mod3", ".jar"),
              Seg("mod4", ".jar")>>

PackTexts == {Text("yaml", Obj("pack")), Text("json-dup", Obj("pack")), Text("garbage", NoValue)}

Addon(i) == [addonID |-> i, installedFile |-> [fileName |-> ModNames[i]]]
AddonIds == 1..Min(MaxAddons, Len(ModNames))

\* Every ordering of every subset of the addons.
InjSeqs(S) ==
    UNION {{s \in [1..k -> S] : \A i, j \in 1..k : i # j => s[i] # s[j]} :
             k \in 0..Cardinality(S)}

\* tag_name is whatever the release event carries; nothing in createRelease
\* inspects it, so the empty string is one of the values it can be given.
Tags == {"v1.2.0", ""}

(* ------------------------- requests and logs -------------------------- *)
NoFields == [name |-> "", body |-> "", prerelease |-> FALSE]
JsonBody(value) == [type |-> "json", value |-> value, parts |-> <<>>, fields |-> NoFields]
FormData(parts) == [type |-> "multipart", value |-> NoValue, parts |-> parts, fields |-> NoFields]

\* api.put(url, body): the request is issued and its response is awaited.
Put(owner, url, body) == [owner |-> owner, url |-> url, body |-> body, state |-> "pending"]

Entry(fn, msg, arg) == [fn |-> fn, msg |-> msg, arg |-> arg]

\* A promise of one branch of updateWeb(): the request it awaits (0: none).
Promise(kind, call, state, err) == [kind |-> kind, call |-> call, state |-> state, err |-> err]

\* core.getInput(name, {required: true}): throws when the input is empty.
getInputRequired(name, value) ==
    IF value = "" THEN [threw |-> TRUE, err |-> InputRequired(name)]
    ELSE [threw |-> FALSE, err |-> NoError]

\* getApi reading web_token as an optional input.
getApi_TokenOptional(token) == [threw |-> FALSE, err |-> NoError]

\* getApi(): reads the required web_token, then builds the client.
getApi(token) == getInputRequired("web_token", token)

(* ------------------------------ web.ts -------------------------------- *)
pageDir == join(webDir, <<Seg("pages", "")>>)
packFile == join(webDir, <<Seg("pack", ".yml")>>)
assetsDir == join(webDir, <<Seg("assets", "")>>)
cfFile(dir) == join(dir, <<Seg("minecraftinstance", ".json")>>)
modFile(dir, fileName) == join(join(dir, <<Seg("mods", "")>>), <<fileName>>)

\* ParsePage with the default arm failing instead of yielding {}.
ParsePage_Strict(t, page) ==
    LET ext == extname(page)
        content == readFileSync(t, page)
    IN  IF content.threw THEN Threw(content.err, NoValue)
        ELSE CASE ext = ".json" -> JSONparse(content.value)
               [] ext = ".yml" -> YAMLparse(content.value)
               [] OTHER -> Threw(SyntaxError, NoValue)

\* updatePages, the parse of one page: the entry is read whatever its
\* extension, then parsed by its extension.
ParsePage(t, page) ==
    LET ext == extname(page)
        content == readFileSync(t, page)
    IN  IF content.threw THEN Threw(content.err, NoValue)
        ELSE CASE ext = ".json" -> JSONparse(content.value)
               [] ext = ".yml" -> YAMLparse(content.value)
               [] OTHER -> Returned(EmptyObject)

\* The first of the results rs that is a throw (0: none): pages.map(...)
\* stops there.
FirstThrown(rs) ==
    LET bad == {i \in DOMAIN rs : rs[i].threw}
    IN  IF bad = {} THEN 0 ELSE CHOOSE i \in bad : \A j \in bad : i <= j

\* PutPages parsing each page only as it uploads it: the pages listed
\* before the first one that does not parse have their PUT issued.
PutPages_Lazy(parsed, calls0, log0) ==
    IF FirstThrown(parsed) # 0
    THEN [threw |-> TRUE, err |-> parsed[FirstThrown(parsed)].err,
          calls |-> calls0 \o [i \in 1..(FirstThrown(parsed) - 1) |->
                      Put("updateWeb", <<"pack/page">>, JsonBody(parsed[i].value))],
          log |-> log0, promises |-> <<>>]
    ELSE [threw |-> FALSE, err |-> NoError,
          calls |-> calls0 \o [i \in DOMAIN parsed |->
                      Put("updateWeb", <<"pack/page">>, JsonBody(parsed[i].value))],
          log |-> log0,
          promises |-> [i \in DOMAIN parsed |->
                          Promise("page", Len(calls0) + i, "pending", NoError)]]

\* updatePages, from the pages parsed on: the first entry that could not be
\* read or parsed is thrown; otherwise parsed.map(async ...) issues one PUT
\* per page and returns their promises.
PutPages(parsed, calls0, log0) ==
    IF FirstThrown(parsed) # 0
    THEN [threw |-> TRUE, err |-> parsed[FirstThrown(parsed)].err, calls |-> calls0,
          log |-> log0, promises |-> <<>>]
    ELSE [threw |-> FALSE, err |-> NoError,
          calls |-> calls0 \o [i \in DOMAIN parsed |->
                      Put("updateWeb", <<"pack/page">>, JsonBody(parsed[i].value))],
          log |-> log0,
          promises |-> [i \in DOMAIN parsed |->
                          Promise("page", Len(calls0) + i, "pending", NoError)]]

\* updatePages(): synchronous. Throws (getApi, web/pages not a directory,
\* the first entry that cannot be read or does not parse) or returns one
\* pending promise per page, each with its PUT issued.
updatePages(t, token, calls0, log0) ==
    LET api == getApi(token)
        listing == readdirSync(t, pageDir)
    IN  IF api.threw
        THEN [threw |-> TRUE, err |-> api.err, calls |-> calls0, log |-> log0,
              promises |-> <<>>]
        ELSE IF ~existsSync(t, pageDir)
        THEN [threw |-> FALSE, err |-> NoError, calls |-> calls0,
              log |-> Append(log0, Entry("warning", "No pages defined", <<>>)),
              promises |-> <<>>]
        ELSE IF listing.threw
        THEN [threw |-> TRUE, err |-> listing.err, calls |-> calls0, log |-> log0,
              promises |-> <<>>]
        ELSE PutPages([i \in DOMAIN listing.value |->
                          ParsePage(t, join(pageDir, <<listing.value[i]>>))],
                      calls0, log0)

\* updateData without the existsSync guard: the read of a missing pack.yml throws.
updateData_NoExistsCheck(t, token, calls0, log0) ==
    LET api == getApi(token)
        packData == readYAML(t, packFile)
    IN  IF api.threw
        THEN [calls |-> calls0, log |-> log0,
              promise |-> Promise("data", 0, "rejected", api.err)]
        ELSE IF packData.threw
        THEN [calls |-> calls0, log |-> log0,
              promise |-> Promise("data", 0, "rejected", packData.err)]
        ELSE [calls |-> Append(calls0, Put("updateWeb", <<"/pack">>, JsonBody(packData.value))),
              log |-> log0,
              promise |-> Promise("data", Len(calls0) + 1, "pending", NoError)]

\* updateData(): up to its first await.
updateData(t, token, calls0, log0) ==
    LET api == getApi(token)
        packData == readYAML(t, packFile)
    IN  IF api.threw
        THEN [calls |-> calls0, log |-> log0,
              promise |-> Promise("data", 0, "rejected", api.err)]
        ELSE IF ~existsSync(t, packFile)
        THEN [calls |-> calls0,
              log |-> Append(log0, Entry("warning", "Skip updating pack data", <<>>)),
              promise |-> Promise("data", 0, "fulfilled", NoError)]
        ELSE IF packData.threw
        THEN [calls |-> calls0, log |-> log0,
              promise |-> Promise("data", 0, "rejected", packData.err)]
        ELSE [calls |-> Append(calls0, Put("updateWeb", <<"/pack">>, JsonBody(packData.value))),
              log |-> log0,
              promise |-> Promise("data", Len(calls0) + 1, "pending", NoError)]

\* AssetPart naming the part after the first segment of the path, not the last.
AssetPart_Dirname(img) == [name |-> img[1], stream |-> img]

\* updateAssets, the part appended for one file: data.append(basename(img), stream).
AssetPart(img) == [name |-> basename(img), stream |-> img]

\* updateAssets(): up to its first await.
updateAssets(t, token, calls0, log0) ==
    LET api == getApi(token)
        listing == readdirSync(t, assetsDir)
        assets == [i \in DOMAIN listing.value |-> join(assetsDir, <<listing.value[i]>>)]
        assetsData == FormData([i \in DOMAIN assets |-> AssetPart(assets[i])])
    IN  IF api.threw
        THEN [calls |-> calls0, log |-> log0,
              promise |-> Promise("assets", 0, "rejected", api.err)]
        ELSE IF ~existsSync(t, assetsDir)
        THEN [calls |-> calls0,
              log |-> Append(log0, Entry("warning", "No assets defined", <<>>)),
              promise |-> Promise("assets", 0, "fulfilled", NoError)]
        ELSE IF listing.threw
        THEN [calls |-> calls0, log |-> log0,
              promise |-> Promise("assets", 0, "rejected", listing.err)]
        ELSE [calls |-> Append(calls0, Put("updateWeb", <<"/pack/assets">>, assetsData)),
              log |-> log0,
              promise |-> Promise("assets", Len(calls0) + 1, "pending", NoError)]

\* Promise.all over promises already settled or pending: rejected with the
\* first rejection, fulfilled when all are fulfilled, pending otherwise.
PromiseAll(ps) ==
    IF \E i \in DOMAIN ps : ps[i].state = "rejected"
    THEN [state |-> "rejected",
          err |-> ps[CHOOSE i \in DOMAIN ps : /\ ps[i].state = "rejected"
                                              /\ \A j \in 1..(i-1) : ps[j].state # "rejected"].err]
    ELSE IF \A i \in DOMAIN ps : ps[i].state = "fulfilled"
    THEN [state |-> "fulfilled", err |-> NoError]
    ELSE [state |-> "pending", err |-> NoError]

\* Promise.all([...P, D, A]) over what updatePages, updateData and
\* updateAssets returned.
Gather(P, D, A) ==
    LET ps == P.promises \o <<D.promise, A.promise>>
    IN  [all |-> PromiseAll(ps), calls |-> A.calls, log |-> A.log, promises |-> ps]

\* The array [...P, updateData(), updateAssets()] from its second element on.
AfterData(P, D, t, token) == Gather(P, D, updateAssets(t, token, D.calls, D.log))

\* updateWeb once updatePages() has returned P or thrown: a throw rejects
\* updateWeb() with nothing else called.
AfterPages(P, t, token) ==
    IF P.threw
    THEN [all |-> [state |-> "rejected", err |-> P.err], calls |-> P.calls,
          log |-> P.log, promises |-> <<>>]
    ELSE AfterData(P, updateData(t, token, P.calls, P.log), t, token)

\* AfterPages awaiting the pages before the other two branches are started.
AfterPages_Alone(P, t, token) ==
    IF P.threw
    THEN [all |-> [state |-> "rejected", err |-> P.err], calls |-> P.calls,
          log |-> P.log, promises |-> <<>>]
    ELSE IF P.promises # <<>>
    THEN [all |-> PromiseAll(P.promises), calls |-> P.calls, log |-> P.log,
          promises |-> P.promises]
    ELSE AfterData(P, updateData(t, token, P.calls, P.log), t, token)

\* updateWeb awaiting the pages before it starts the other two branches:
\* with pages to send, only their requests are issued at first.
updateWeb_PagesFirst(t, token, calls0, log0) ==
    AfterPages_Alone(
        updatePages(t, token, calls0, Append(log0, Entry("startGroup", "Updating web", <<>>))),
        t, token)

\* updateWeb(), up to its await: startGroup, then the array
\* [...updatePages(), updateData(), updateAssets()] is built left to right
\* and handed to Promise.all.
updateWeb(t, token, calls0, log0) ==
    AfterPages(
        updatePages(t, token, calls0, Append(log0, Entry("startGroup", "Updating web", <<>>))),
        t, token)

\* strip(release) of ./releases: the descriptive fields of the release event.
strip(release) == [name |-> release.name, body |-> release.body,
                   prerelease |-> release.prerelease]

\* FilterAddons keeping every addon of the manifest.
FilterAddons_NoFilter(t, dir, addons) == addons

\* createRelease, the filter of the manifest's addons by the files present
\* under <dir>/mods/.
FilterAddons(t, dir, addons) ==
    SelectSeq(addons, LAMBDA addon : existsSync(t, modFile(dir, addon.installedFile.fileName)))

\* createRelease taking a missing manifest for an empty one.
createRelease_MissingIsEmpty(t, token, rel, dir, calls0) ==
    LET api == getApi(token)
        tag == rel.tag_name
        cfData == IF existsSync(t, cfFile(dir)) THEN readJSON(t, cfFile(dir))
                  ELSE Returned(Manifest(<<>>))
        installedAddons == FilterAddons(t, dir, cfData.value.installedAddons)
        body == [type |-> "json", value |-> Manifest(installedAddons), parts |-> <<>>,
                 fields |-> strip(rel)]
    IN  IF api.threw
        THEN [threw |-> TRUE, err |-> api.err, calls |-> calls0]
        ELSE IF cfData.threw
        THEN [threw |-> TRUE, err |-> cfData.err, calls |-> calls0]
        ELSE IF cfData.value.kind = "null"
        THEN [threw |-> TRUE, err |-> InstalledAddonsOfNull, calls |-> calls0]
        ELSE IF "installedAddons" \notin cfData.value.keys
        THEN [threw |-> TRUE, err |-> FilterOfUndefined, calls |-> calls0]
        ELSE [threw |-> FALSE, err |-> NoError,
              calls |-> Append(calls0, Put("createRelease", <<"/pack/release", tag>>, body))]

\* createRelease(release, dir), up to its await: throws (getApi, manifest
\* missing, unreadable or not JSON, manifest null or without installedAddons)
\* or issues the one PUT /pack/release/{tag}.
createRelease(t, token, rel, dir, calls0) ==
    LET api == getApi(token)
        tag == rel.tag_name
        cfData == readJSON(t, cfFile(dir))
        installedAddons == FilterAddons(t, dir, cfData.value.installedAddons)
        body == [type |-> "json", value |-> Manifest(installedAddons), parts |-> <<>>,
                 fields |-> strip(rel)]
    IN  IF api.threw
        THEN [threw |-> TRUE, err |-> api.err, calls |-> calls0]
        ELSE IF ~existsSync(t, cfFile(dir))
        THEN [threw |-> TRUE, err |-> ManifestMissing, calls |-> calls0]
        ELSE IF cfData.threw
        THEN [threw |-> TRUE, err |-> cfData.err, calls |-> calls0]
        ELSE IF cfData.value.kind = "null"
        THEN [threw |-> TRUE, err |-> InstalledAddonsOfNull, calls |-> calls0]
        ELSE IF "installedAddons" \notin cfData.value.keys
        THEN [threw |-> TRUE, err |-> FilterOfUndefined, calls |-> calls0]
        ELSE [threw |-> FALSE, err |-> NoError,
              calls |-> Append(calls0, Put("createRelease", <<"/pack/release", tag>>, body))]

(* ------------------------------ index.ts ------------------------------ *)
\* run().catch(e => ...): an Axios error is logged and thrown again out of
\* the handler; any other error is handed to core.setFailed.
Handler(e, log0) ==
    IF isAxiosError(e)
    THEN [log |-> log0 \o <<Entry("console.error", "API Request failed", e.url),
                            Entry("console.error", "response data", e.url)>>,
          thrown |-> e]
    ELSE [log |-> Append(log0, Entry("setFailed", e.message, e.url)),
          thrown |-> NoError]

(* ------------------------------- state -------------------------------- *)
VARIABLES
    action,       \* input 'action'
    eventName,    \* github.context.eventName
    web_token,    \* input 'web_token' ("" when not supplied)
    release,      \* github.context.payload.release
    fs,           \* the files of the workspace
    pc,           \* where web() is suspended: start, createRelease, updateWeb, technicRelease, done; exited: the process has ended
    calls,        \* every request issued through the client, in order of issue
    promises,     \* the array handed to Promise.all by updateWeb()
    all,          \* the promise of updateWeb(), settled by its Promise.all: idle, pending, fulfilled, rejected
    run,          \* the promise of run()
    thrown,       \* the error thrown again out of the catch handler (NoError: none)
    log           \* startGroup/endGroup/warning/info/console.error/setFailed, in order

inputs == <<action, eventName, web_token, release, fs>>
vars == <<action, eventName, web_token, release, fs, pc, calls, promises, all, run, thrown, log>>

Actions == {"web", "technic", "deploy", ""}
Events == {"release", "push"}
Tokens == {"secret", ""}
Release(tag) == [tag_name |-> tag, name |-> "Release", body |-> "notes", prerelease |-> FALSE]

\* What is at the path of a category: nothing, a directory (or, for
\* pack.yml, the file) with its entries, or a file where a directory is
\* expected.
Opt(present, files) == [present |-> present, isDir |-> TRUE, files |-> files]
Absent == Opt(FALSE, <<>>)
AsFile == [present |-> TRUE, isDir |-> FALSE, files |-> <<>>]
Binary == Text("binary", NoValue)

PagesChoices == {Absent, AsFile} \cup {Opt(TRUE, l) : l \in Listings(PageFiles, MaxPages)}
PackChoices ==
    {Absent, Opt(TRUE, <<[name |-> Seg("pack", ".yml"), node |-> Dir(<<>>)]>>)}
    \cup {Opt(TRUE, <<[name |-> Seg("pack", ".yml"), node |-> File(x)]>>) : x \in PackTexts}
AssetsChoices ==
    {Absent, AsFile}
    \cup {Opt(TRUE, [i \in 1..n |-> [name |-> AssetNames[i], node |-> File(Binary)]]) :
            n \in 0..Min(MaxAssets, Len(AssetNames))}

CategoryTree(dir, c) ==
    IF ~c.present THEN EmptyTree
    ELSE IF c.isDir THEN DirTree(dir, c.files)
    ELSE [p \in {dir} |-> File(Binary)]

WebTree(pages, pack, assets) ==
    CategoryTree(pageDir, pages)
    @@ (IF pack.present THEN [p \in {packFile} |-> pack.files[1].node] ELSE EmptyTree)
    @@ CategoryTree(assetsDir, assets)

WebTrees == {WebTree(a, b, c) : a \in PagesChoices, b \in PackChoices, c \in AssetsChoices}

\* The web trees explored together with a release event.
ReleaseWebTrees ==
    {WebTree(a, b, c) :
        a \in {Absent, Opt(TRUE, <<PageFiles[4]>>)},
        b \in {Absent, Opt(TRUE, <<[name |-> Seg("pack", ".yml"),
                                    node |-> File(Text("yaml", Obj("pack")))]>>)},
        c \in {Absent, Opt(TRUE, <<[name |-> AssetNames[1], node |-> File(Binary)]>>)}}

\* minecraftinstance.json: not JSON, the JSON documents null and {}, or a
\* manifest listing addons in some order.
ManifestTexts ==
    {Text("garbage", NoValue), Text("json", Null), Text("json", EmptyObject)}
    \cup {Text("json", Manifest(s)) : s \in InjSeqs({Addon(i) : i \in AddonIds})}

ModsTrees ==
    {DirTree(<<Seg("mods", "")>>,
             Listing([i \in AddonIds |-> [name |-> ModNames[i], node |-> File(Binary)]], S)) :
        S \in SUBSET AddonIds}

ReleaseTrees ==
    {EmptyTree}
    \cup {[p \in {cfFile(<<>>)} |-> File(x)] @@ m : x \in ManifestTexts, m \in ModsTrees}

Settled(p) == p.state \in {"fulfilled", "rejected"}
Idle == [state |-> "idle", err |-> NoError]
Pending == [state |-> "pending", err |-> NoError]
Fulfilled == [state |-> "fulfilled", err |-> NoError]
Rejected(e) == [state |-> "rejected", err |-> e]

Init ==
    /\ action \in Actions
    /\ eventName \in Events
    /\ web_token \in Tokens
    /\ release \in {Release(tag) : tag \in IF eventName = "release" THEN Tags ELSE {"v1.2.0"}}
    /\ \/ /\ action = "web" /\ eventName = "release"
          /\ fs \in {w @@ r : w \in ReleaseWebTrees, r \in ReleaseTrees}
       \/ /\ action = "web" /\ eventName # "release"
          /\ fs \in WebTrees
       \/ /\ action # "web"
          /\ fs = EmptyTree
    /\ pc = "start"
    /\ calls = <<>>
    /\ promises = <<>>
    /\ all = Idle
    /\ run = Pending
    /\ thrown = NoError
    /\ log = <<>>

\* run() settles: fulfilled, or rejected with e, and then the catch handler
\* runs. An error thrown again out of the handler is a promise rejection
\* nothing handles: the runtime either only warns about it and the process
\* lives on, or it ends the process at once (pc = "exited"), whichever the
\* Node.js running the action does.
RunSettles(outcome, log1) ==
    IF outcome.state = "rejected"
    THEN LET h == Handler(outcome.err, log1)
         IN  /\ run' = Rejected(outcome.err)
             /\ log' = h.log
             /\ thrown' = h.thrown
             /\ pc' \in IF h.thrown # NoError THEN {"done", "exited"} ELSE {"done"}
    ELSE /\ run' = Fulfilled
         /\ log' = log1
         /\ thrown' = thrown
         /\ pc' = "done"

\* web(), from `await updateWeb()` on, updateWeb() having run up to its
\* await with the outcome u: if Promise.all is settled at once, the rest of
\* updateWeb (endGroup) and of run() follows in the same turn of the event
\* loop.
UpdateWebSuspends(u) ==
    /\ calls' = u.calls
    /\ promises' = u.promises
    /\ all' = u.all
    /\ CASE u.all.state = "fulfilled" ->
               RunSettles(Fulfilled, Append(u.log, Entry("endGroup", "", <<>>)))
         [] u.all.state = "rejected" -> RunSettles(u.all, u.log)
         [] OTHER -> /\ pc' = "updateWeb"
                     /\ log' = u.log
                     /\ UNCHANGED <<run, thrown>>

AwaitUpdateWeb(calls0, log0) == UpdateWebSuspends(updateWeb(fs, web_token, calls0, log0))

\* web() calling createRelease without awaiting it before updateWeb().
RunWeb_NoAwait ==
    /\ pc = "start"
    /\ action = "web"
    /\ IF eventName = "release"
       THEN LET c == createRelease(fs, web_token, release, <<>>, calls)
            IN  AwaitUpdateWeb(c.calls, log)
       ELSE AwaitUpdateWeb(calls, log)
    /\ UNCHANGED inputs

\* run() with action 'web': web() up to its first await that suspends.
RunWeb ==
    /\ pc = "start"
    /\ action = "web"
    /\ IF eventName = "release"
       THEN LET c == createRelease(fs, web_token, release, <<>>, calls)
            IN  IF c.threw
                THEN /\ RunSettles(Rejected(c.err), log)
                     /\ UNCHANGED <<calls, promises, all>>
                ELSE /\ pc' = "createRelease"
                     /\ calls' = c.calls
                     /\ UNCHANGED <<promises, all, run, thrown, log>>
       ELSE AwaitUpdateWeb(calls, log)
    /\ UNCHANGED inputs

\* run() with action 'technic': the build flow of ./technic is started.
RunTechnic ==
    /\ pc = "start"
    /\ action = "technic"
    /\ pc' = "technicRelease"
    /\ UNCHANGED <<calls, promises, all, run, thrown, log>>
    /\ UNCHANGED inputs

\* run() treating any action other than 'technic' as 'web'.
RunInvalid_FallsToWeb ==
    /\ pc = "start"
    /\ action \notin {"web", "technic"}
    /\ AwaitUpdateWeb(calls, log)
    /\ UNCHANGED inputs

\* run() with any other action: getInput throws on a missing action, and an
\* unknown one falls through the switch to `throw new Error(Invalid action)`.
RunInvalid ==
    /\ pc = "start"
    /\ action \notin {"web", "technic"}
    /\ LET a == getInputRequired("action", action)
       IN  RunSettles(Rejected(IF a.threw THEN a.err ELSE InvalidAction), log)
    /\ UNCHANGED <<calls, promises, all>>
    /\ UNCHANGED inputs

\* technicRelease() of ./technic settles: it resolves, or throws an error
\* of either kind.
TechnicSettles ==
    /\ pc = "technicRelease"
    /\ \E outcome \in {Fulfilled, Rejected(Error("technic")), Rejected(AxiosError(<<"technic">>))} :
          RunSettles(outcome, log)
    /\ UNCHANGED <<calls, promises, all>>
    /\ UNCHANGED inputs

\* ReleaseResponse ending web() after the release, without updateWeb().
ReleaseResponse_NoUpdate ==
    /\ pc = "createRelease"
    /\ \E i \in DOMAIN calls :
        /\ calls[i].owner = "createRelease"
        /\ calls[i].state = "pending"
        /\ \E ok \in BOOLEAN :
            /\ calls' = [calls EXCEPT ![i].state = IF ok THEN "ok" ELSE "failed"]
            /\ IF ok
               THEN RunSettles(Fulfilled,
                       Append(log, Entry("info", "Created release for version", <<release.tag_name>>)))
               ELSE RunSettles(Rejected(AxiosError(calls[i].url)), log)
            /\ UNCHANGED <<promises, all>>
    /\ UNCHANGED inputs

\* ReleaseResponse sending the release PUT again when it has failed.
ReleaseResponse_Retry ==
    /\ pc = "createRelease"
    /\ \E i \in DOMAIN calls :
        /\ calls[i].owner = "createRelease"
        /\ calls[i].state = "pending"
        /\ \E ok \in BOOLEAN :
            IF ok
            THEN AwaitUpdateWeb(
                    [calls EXCEPT ![i].state = "ok"],
                    Append(log, Entry("info", "Created release for version", <<release.tag_name>>)))
            ELSE /\ calls' = Append([calls EXCEPT ![i].state = "failed"],
                                    [calls[i] EXCEPT !.state = "pending"])
                 /\ UNCHANGED <<pc, promises, all, run, thrown, log>>
    /\ UNCHANGED inputs

\* The response to the release PUT arrives: createRelease logs and returns,
\* and web() goes on to updateWeb(); or the PUT failed and run() rejects.
ReleaseResponse ==
    /\ pc = "createRelease"
    /\ \E i \in DOMAIN calls :
        /\ calls[i].owner = "createRelease"
        /\ calls[i].state = "pending"
        /\ \E ok \in BOOLEAN :
            IF ok
            THEN AwaitUpdateWeb(
                    [calls EXCEPT ![i].state = "ok"],
                    Append(log, Entry("info", "Created release for version", <<release.tag_name>>)))
            ELSE /\ calls' = [calls EXCEPT ![i].state = "failed"]
                 /\ RunSettles(Rejected(AxiosError(calls[i].url)), log)
                 /\ UNCHANGED <<promises, all>>
    /\ UNCHANGED inputs

\* BranchSettles logging the success message before looking at the outcome
\* of the PUT.
BranchSettles_LogFirst(p, call, ok) ==
    LET msg == CASE p.kind = "page" -> Entry("info", "Uploaded", <<call.body.value.title>>)
                 [] p.kind = "data" -> Entry("info", "Updated pack data", <<>>)
                 [] OTHER -> Entry("info", "Updated assets", <<>>)
    IN  IF ~ok
        THEN [promise |-> [p EXCEPT !.state = "rejected", !.err = AxiosError(call.url)],
              log |-> <<msg>>]
        ELSE IF p.kind = "page" /\ call.body.value.kind = "null"
        THEN [promise |-> [p EXCEPT !.state = "rejected", !.err = TitleOfNull],
              log |-> <<>>]
        ELSE [promise |-> [p EXCEPT !.state = "fulfilled"], log |-> <<msg>>]

\* BranchSettles with the failure of the PUT caught inside the branch.
BranchSettles_Swallow(p, call, ok) ==
    [promise |-> [p EXCEPT !.state = "fulfilled"], log |-> <<>>]

\* What one branch of updateWeb() does when its PUT has settled.
BranchSettles(p, call, ok) ==
    IF ~ok
    THEN [promise |-> [p EXCEPT !.state = "rejected", !.err = AxiosError(call.url)],
          log |-> <<>>]
    ELSE CASE p.kind = "page" ->
                 IF call.body.value.kind = "null"
                 THEN [promise |-> [p EXCEPT !.state = "rejected", !.err = TitleOfNull],
                       log |-> <<>>]
                 ELSE [promise |-> [p EXCEPT !.state = "fulfilled"],
                       log |-> <<Entry("info", "Uploaded", <<call.body.value.title>>)>>]
           [] p.kind = "data" ->
                 [promise |-> [p EXCEPT !.state = "fulfilled"],
                  log |-> <<Entry("info", "Updated pack data", <<>>)>>]
           [] OTHER ->
                 [promise |-> [p EXCEPT !.state = "fulfilled"],
                  log |-> <<Entry("info", "Updated assets", <<>>)>>]

\* Promise.all when one more of its promises has settled; once settled it
\* stays as it is.
AllSettles(prev, ps, b) ==
    IF prev.state # "pending" THEN prev
    ELSE IF ps[b].state = "rejected" THEN Rejected(ps[b].err)
    ELSE IF \A j \in DOMAIN ps : ps[j].state = "fulfilled" THEN Fulfilled
    ELSE prev

\* The response to one PUT of updateWeb() arrives, the process still being
\* there to take it: its branch settles, then Promise.all, then (when that
\* settles) updateWeb, web and run.
Response ==
    \E b \in DOMAIN promises :
        /\ pc # "exited"
        /\ promises[b].state = "pending"
        /\ \E ok \in BOOLEAN :
            LET i == promises[b].call
                s == BranchSettles(promises[b], calls[i], ok)
                ps == [promises EXCEPT ![b] = s.promise]
                a == AllSettles(all, ps, b)
                log1 == log \o s.log
            IN  /\ calls' = [calls EXCEPT ![i].state = IF ok THEN "ok" ELSE "failed"]
                /\ promises' = ps
                /\ all' = a
                /\ IF all.state = "pending" /\ a.state = "fulfilled"
                   THEN RunSettles(Fulfilled, Append(log1, Entry("endGroup", "", <<>>)))
                   ELSE IF all.state = "pending" /\ a.state = "rejected"
                   THEN RunSettles(a, log1)
                   ELSE /\ log' = log1
                        /\ UNCHANGED <<pc, run, thrown>>
        /\ UNCHANGED inputs

Next ==
    \/ RunWeb
    \/ RunTechnic
    \/ RunInvalid
    \/ TechnicSettles
    \/ ReleaseResponse
    \/ Response

Spec == Init /\ [][Next]_vars

(* --------------------- getWebData() as an entry point ----------------- *)
\* api.get(url): the request is issued and its response is awaited.
Get(owner, url) == [owner |-> owner, url |-> url, body |-> JsonBody(NoValue), state |-> "pending"]

\* getWebData(), up to its await: getApi, then GET /pack.
getWebData(token, calls0) ==
    LET api == getApi(token)
    IN  IF api.threw
        THEN [threw |-> TRUE, err |-> api.err, calls |-> calls0]
        ELSE [threw |-> FALSE, err |-> NoError,
              calls |-> Append(calls0, Get("getWebData", <<"/pack">>))]

\* A caller calls getWebData(); run stands for the promise it gets back.
CallGetWebData ==
    /\ pc = "start"
    /\ LET g == getWebData(web_token, calls)
       IN  /\ calls' = g.calls
           /\ pc' = IF g.threw THEN "done" ELSE "getWebData"
           /\ run' = IF g.threw THEN Rejected(g.err) ELSE run
    /\ UNCHANGED <<promises, all, thrown, log>>
    /\ UNCHANGED inputs

\* The response to GET /pack arrives: getWebData returns its data, or throws.
GetWebDataResponse ==
    /\ pc = "getWebData"
    /\ \E i \in DOMAIN calls :
        /\ calls[i].owner = "getWebData"
        /\ calls[i].state = "pending"
        /\ \E ok \in BOOLEAN :
            /\ calls' = [calls EXCEPT ![i].state = IF ok THEN "ok" ELSE "failed"]
            /\ run' = IF ok THEN Fulfilled ELSE Rejected(AxiosError(calls[i].url))
    /\ pc' = "done"
    /\ UNCHANGED <<promises, all, thrown, log>>
    /\ UNCHANGED inputs

\* The three entry points that use the client, each called from the start.
NextEntry ==
    \/ RunWeb
    \/ ReleaseResponse
    \/ Response
    \/ CallGetWebData
    \/ GetWebDataResponse

SpecEntry == Init /\ [][NextEntry]_vars

(* ----------------------- vocabulary of the claims --------------------- *)
updateWebCalled == all.state # "idle"

\* The requests updateWeb() has issued to one endpoint.
Issued(url) == {i \in DOMAIN calls : calls[i].owner = "updateWeb" /\ calls[i].url = url}
PageCalls == Issued(<<"pack/page">>)
DataCalls == Issued(<<"/pack">>)
AssetsCalls == Issued(<<"/pack/assets">>)
WebCalls == {i \in DOMAIN calls : calls[i].owner = "updateWeb"}
ReleaseCalls == {i \in DOMAIN calls : calls[i].owner = "createRelease"}

Logged(fn, msg) == \E k \in DOMAIN log : log[k].fn = fn /\ log[k].msg = msg

\* What the workspace holds at a path.
IsDir(p) == p \in DOMAIN fs /\ fs[p].type = "dir"
IsFile(p) == p \in DOMAIN fs /\ fs[p].type = "file"
Entries(p) == fs[p].entries
Syntax(p) == fs[p].text.syntax
Content(p) == fs[p].text.value

\* A page entry that updatePages can turn into a request body: a file, and
\* if named .json one holding JSON, if named .yml one holding YAML.
PageFileParses(p) ==
    /\ IsFile(p)
    /\ extname(p) = ".json" => Syntax(p) \in {"json", "json-dup"}
    /\ extname(p) = ".yml" => Syntax(p) \in {"yaml", "json"}
PagePaths ==
    IF IsDir(pageDir)
    THEN {join(pageDir, <<Entries(pageDir)[i]>>) : i \in DOMAIN Entries(pageDir)}
    ELSE {}
\* web/pages, when there, is a directory whose every entry can be read and parses.
AllPagesParse == existsSync(fs, pageDir) => (IsDir(pageDir) /\ \A p \in PagePaths : PageFileParses(p))
\* web/pack.yml, when there, is a file holding YAML.
PackParses == existsSync(fs, packFile) => (IsFile(packFile) /\ Syntax(packFile) \in {"yaml", "json"})
\* web/assets, when there, is a directory.
AssetsListable == existsSync(fs, assetsDir) => IsDir(assetsDir)

(* -------------------------------- C1 ---------------------------------- *)
NoCallsForAbsent ==
    /\ ~existsSync(fs, pageDir) => PageCalls = {}
    /\ ~existsSync(fs, packFile) => DataCalls = {}
    /\ ~existsSync(fs, assetsDir) => AssetsCalls = {}

AllThreeAbsent ==
    /\ ~existsSync(fs, pageDir)
    /\ ~existsSync(fs, packFile)
    /\ ~existsSync(fs, assetsDir)

\* C1 as stated: a category whose path is absent gets no network call, and
\* with all three absent updateWeb() completes successfully with zero calls.
C1_AsStated ==
    /\ NoCallsForAbsent
    /\ (updateWebCalled /\ AllThreeAbsent) => (all.state = "fulfilled" /\ WebCalls = {})

\* C1, amended: a category whose path is absent gets no network call; once
\* the array of branches is built each absent category has logged its
\* warning; a failure of updateWeb() always has a cause other than absence
\* (web_token not supplied, a page or pack.yml that cannot be read or does
\* not parse, web/pages or web/assets not being a directory, a failed
\* request, a page whose content is null); and with all three absent and
\* web_token supplied, updateWeb() completes successfully with zero calls.
C1_AbsentCategorySkipped ==
    /\ NoCallsForAbsent
    /\ promises # <<>> =>
          /\ ~existsSync(fs, pageDir) => Logged("warning", "No pages defined")
          /\ ~existsSync(fs, packFile) => Logged("warning", "Skip updating pack data")
          /\ ~existsSync(fs, assetsDir) => Logged("warning", "No assets defined")
    /\ all.state = "rejected" =>
          \/ web_token = ""
          \/ ~AllPagesParse
          \/ ~PackParses
          \/ ~AssetsListable
          \/ \E i \in WebCalls : calls[i].state = "failed"
          \/ \E i \in PageCalls : calls[i].state = "ok" /\ calls[i].body.value.kind = "null"
    /\ (updateWebCalled /\ AllThreeAbsent /\ web_token # "") =>
          (all.state = "fulfilled" /\ WebCalls = {} /\ Logged("endGroup", ""))

C1_Witness ==
    /\ all.state = "fulfilled"
    /\ AllThreeAbsent
    /\ web_token # ""
    /\ calls = <<>>
    /\ Logged("warning", "Skip updating pack data")

(* -------------------------------- C2 ---------------------------------- *)
createReleaseCalled == action = "web" /\ eventName = "release" /\ pc # "start"
ManifestAbsent == ~existsSync(fs, cfFile(<<>>))

\* C2 as stated: createRelease with the manifest absent fails with the
\* 'manifest missing' error, not a transport error, with zero network calls.
C2_AsStated ==
    (createReleaseCalled /\ ManifestAbsent) =>
        (run = Rejected(ManifestMissing) /\ calls = <<>>)

\* C2, amended: createRelease with the manifest absent fails with an error
\* that is not a transport error and with zero network calls; the error is
\* 'manifest missing' when web_token is supplied, and the configuration
\* error of getApi when it is not.
C2_ManifestMissingFails ==
    (createReleaseCalled /\ ManifestAbsent) =>
        /\ run.state = "rejected"
        /\ ~isAxiosError(run.err)
        /\ calls = <<>>
        /\ all = Idle
        /\ web_token # "" => run.err = ManifestMissing
        /\ web_token = "" => run.err = InputRequired("web_token")

C2_Witness ==
    /\ createReleaseCalled
    /\ ManifestAbsent
    /\ web_token # ""
    /\ run = Rejected(ManifestMissing)
    /\ calls = <<>>

(* -------------------------------- C3 ---------------------------------- *)
Range(s) == {s[i] : i \in DOMAIN s}
ManifestAddons == Content(cfFile(<<>>)).installedAddons
OnDisk(addon) == existsSync(fs, modFile(<<>>, addon.installedFile.fileName))

\* C3: the installedAddons of every release payload sent are exactly the
\* manifest's addons whose file exists under mods/: none that is not in the
\* manifest, every one whose file is present, none whose file is absent,
\* each once and in the manifest's order, whatever that order is.
C3_AddonsFilteredByFilesPresent ==
    \A i \in ReleaseCalls :
        LET sent == calls[i].body.value.installedAddons
        IN  /\ Range(sent) \subseteq Range(ManifestAddons)
            /\ \A a \in Range(ManifestAddons) : a \in Range(sent) <=> OnDisk(a)
            /\ Len(sent) = Cardinality({a \in Range(ManifestAddons) : OnDisk(a)})
            /\ \A j, k \in DOMAIN sent : j < k =>
                  \E m, n \in DOMAIN ManifestAddons :
                      m < n /\ ManifestAddons[m] = sent[j] /\ ManifestAddons[n] = sent[k]

\* A payload sent for a manifest listing first an addon whose file is absent
\* and then one whose file is present.
C3_Witness ==
    \E i \in ReleaseCalls :
        /\ Len(ManifestAddons) = 2
        /\ ~OnDisk(ManifestAddons[1])
        /\ OnDisk(ManifestAddons[2])
        /\ calls[i].body.value.installedAddons = <<ManifestAddons[2]>>

(* -------------------------------- C4 ---------------------------------- *)
\* C4: a failed request of any branch fails updateWeb() as a whole, and
\* updateWeb() succeeds only if every request it issued succeeded.
C4_AnyFailureFailsUpdateWeb ==
    /\ (\E i \in WebCalls : calls[i].state = "failed") => all.state = "rejected"
    /\ all.state = "fulfilled" => \A i \in WebCalls : calls[i].state = "ok"

\* One request failed after every sibling had succeeded.
C4_Witness ==
    /\ Cardinality(WebCalls) >= 3
    /\ \E i \in WebCalls :
          /\ calls[i].state = "failed"
          /\ \A j \in WebCalls \ {i} : calls[j].state = "ok"
    /\ all.state = "rejected"
    /\ run.state = "rejected"

(* -------------------------------- C5 ---------------------------------- *)
\* C5 as stated: when updateWeb() completes, successfully or with a
\* failure, no upload launched by it is still in flight.
C5_AsStated ==
    Settled(all) => \A b \in DOMAIN promises : promises[b].state # "pending"

(* -------------------------------- C6 ---------------------------------- *)
\* C6: on a release event, no request of updateWeb() is issued while the
\* release PUT is pending, and updateWeb() is entered only once the release
\* PUT has completed.
C6_ReleaseBeforeFanOut ==
    /\ \A i \in ReleaseCalls : calls[i].state = "pending" => (WebCalls = {} /\ ~updateWebCalled)
    /\ (action = "web" /\ eventName = "release" /\ (updateWebCalled \/ WebCalls # {})) =>
          \E i \in ReleaseCalls : calls[i].state = "ok" /\ \A j \in WebCalls : i < j

C6_Witness ==
    /\ eventName = "release"
    /\ \E i \in ReleaseCalls : calls[i].state = "ok"
    /\ Cardinality(WebCalls) = 3

(* -------------------------------- C7 ---------------------------------- *)
PipelineFailed == \E k \in DOMAIN log : log[k].fn = "setFailed"

\* C7 as stated: every failure that escapes run() sets the failure marker
\* (core.setFailed), and for a transport failure the endpoint and the
\* response body are logged before that.
C7_AsStated ==
    run.state = "rejected" =>
        /\ PipelineFailed
        /\ isAxiosError(run.err) =>
              \E k, m \in DOMAIN log :
                  /\ k < m
                  /\ log[k] = Entry("console.error", "API Request failed", run.err.url)
                  /\ log[m].fn = "setFailed"

(* -------------------------------- C8 ---------------------------------- *)
\* C8 as stated: every failure raised by a branch of updateWeb() or by
\* createRelease reaches the top-level handler.
C8_AsStated ==
    /\ \A b \in DOMAIN promises :
          promises[b].state = "rejected" => run = Rejected(promises[b].err)
    /\ \A i \in ReleaseCalls :
          calls[i].state = "failed" => run = Rejected(AxiosError(calls[i].url))

(* -------------------------------- C9 ---------------------------------- *)
\* One PUT /pack/assets, one part per file of the directory, each named by
\* the base name of its file and streaming that file.
OneAssetsCall ==
    /\ Cardinality(AssetsCalls) = 1
    /\ \A i \in AssetsCalls :
          LET listing == Entries(assetsDir)
              body == calls[i].body
          IN  /\ body.type = "multipart"
              /\ Len(body.parts) = Len(listing)
              /\ \A k \in DOMAIN listing :
                    /\ body.parts[k].name = listing[k]
                    /\ body.parts[k].stream = join(assetsDir, <<listing[k]>>)

\* C9 as stated: an assets directory holding N files gets exactly one
\* PUT /pack/assets with N parts named by the files' base names.
C9_AsStated ==
    (updateWebCalled /\ existsSync(fs, assetsDir)) => OneAssetsCall

\* C9, amended: the same, provided web/assets is a directory and
\* updatePages() did not throw, that is web_token is supplied and web/pages,
\* if there, is a directory whose every entry is a file that parses;
\* otherwise no PUT /pack/assets is issued at all.
C9_OneAssetsCall ==
    (updateWebCalled /\ existsSync(fs, assetsDir)) =>
        IF web_token # "" /\ AllPagesParse /\ IsDir(assetsDir)
        THEN OneAssetsCall ELSE AssetsCalls = {}

C9_Witness ==
    /\ IsDir(assetsDir)
    /\ Len(Entries(assetsDir)) = 2
    /\ \E i \in AssetsCalls :
          /\ Len(calls[i].body.parts) = 2
          /\ calls[i].body.parts[2].name = AssetNames[2]
          /\ calls[i].state = "ok"

(* -------------------------------- C10 --------------------------------- *)
\* What the PUT for the page file p carries.
PageBody(p) ==
    IF extname(p) \in {".json", ".yml"} THEN Content(p) ELSE EmptyObject

\* One PUT pack/page per file, in the order of the listing, each carrying
\* the content of its file.
OneCallPerPage ==
    LET listing == Entries(pageDir)
    IN  /\ Cardinality(PageCalls) = Len(listing)
        /\ \E off \in 0..Len(calls) :
              /\ PageCalls = {off + k : k \in DOMAIN listing}
              /\ \A k \in DOMAIN listing :
                    calls[off + k].body = JsonBody(PageBody(join(pageDir, <<listing[k]>>)))

\* C10 as stated: a pages directory holding K files gets exactly K page
\* PUTs, one per file, the unrecognised extensions carrying {}.
C10_AsStated ==
    (updateWebCalled /\ existsSync(fs, pageDir)) => OneCallPerPage

\* C10, amended: the same, provided web_token is supplied, web/pages is a
\* directory and every entry of it is a file, the .json and .yml ones
\* parsing; otherwise no page PUT is issued at all.
C10_OneCallPerPage ==
    (updateWebCalled /\ existsSync(fs, pageDir)) =>
        IF web_token # "" /\ AllPagesParse THEN OneCallPerPage ELSE PageCalls = {}

\* Three pages, .yml, .json and .txt, each with its PUT, the .txt one
\* carrying {}.
C10_Witness ==
    /\ IsDir(pageDir)
    /\ Entries(pageDir) = <<PageFiles[1].name, PageFiles[4].name, PageFiles[5].name>>
    /\ Cardinality(PageCalls) = 3
    /\ \E i \in PageCalls : calls[i].body.value = EmptyObject
    /\ \E i \in PageCalls : calls[i].body.value = Obj("Home")
    /\ \E i \in PageCalls : calls[i].body.value = Obj("About")

(* -------------------------------- C11 --------------------------------- *)
\* The manifest is a file holding a JSON object with an installedAddons list.
ManifestParses ==
    /\ IsFile(cfFile(<<>>))
    /\ Syntax(cfFile(<<>>)) \in {"json", "json-dup"}
    /\ Content(cfFile(<<>>)).kind = "object"
    /\ "installedAddons" \in Content(cfFile(<<>>)).keys

\* Exactly one request of createRelease: the PUT /pack/release/{tag}.
OneReleasePut ==
    /\ Cardinality(ReleaseCalls) = 1
    /\ \A i \in ReleaseCalls : calls[i].url = <<"/pack/release", release.tag_name>>

\* C11 as stated: a createRelease invocation sends the release payload at
\* most once, and exactly once when the manifest is present.
C11_AsStated ==
    /\ Cardinality(ReleaseCalls) <= 1
    /\ (createReleaseCalled /\ ~ManifestAbsent) => OneReleasePut

\* C11, amended: a createRelease invocation sends the release payload at
\* most once, also after a failure, and issues no other request; it sends
\* it exactly once when web_token is supplied and the manifest is present
\* and parses as a JSON object with an installedAddons list, and not at
\* all otherwise.
C11_ReleaseSentOnce ==
    /\ Cardinality(ReleaseCalls) <= 1
    /\ pc = "createRelease" => Len(calls) = 1
    /\ createReleaseCalled =>
          IF web_token # "" /\ ManifestParses THEN OneReleasePut ELSE calls = <<>>
    /\ ~createReleaseCalled => ReleaseCalls = {}

\* The release PUT has failed and has not been sent again.
C11_Witness ==
    /\ createReleaseCalled
    /\ ManifestParses
    /\ pc = "done"
    /\ Len(calls) = 1
    /\ \E i \in ReleaseCalls : calls[i].state = "failed"

(* -------------------------------- C12 --------------------------------- *)
\* C12 is not stated here. web.ts keeps no module-level state but the
\* constant webDir, so updateWeb is an operator of the files and the inputs
\* alone; that a second evaluation of it issues the requests of the first
\* follows from that definition and not from any reachable state.

(* -------------------------------- C13 --------------------------------- *)
\* C13: without web_token, updateWeb, createRelease and getWebData each fail
\* with the missing-input error of getApi and issue no request at all,
\* whatever files exist.
C13_NoTokenNoCalls ==
    (web_token = "" /\ pc # "start") =>
        /\ pc = "done"
        /\ run = Rejected(InputRequired("web_token"))
        /\ calls = <<>>
        /\ updateWebCalled => all = Rejected(InputRequired("web_token"))

\* updateWeb() has failed without web_token although pages, pack.yml and
\* assets all exist.
C13_Witness ==
    /\ web_token = ""
    /\ pc = "done"
    /\ updateWebCalled
    /\ existsSync(fs, pageDir) /\ existsSync(fs, packFile) /\ existsSync(fs, assetsDir)
    /\ run = Rejected(InputRequired("web_token"))
    /\ calls = <<>>

(* -------------------------------- C14 --------------------------------- *)
\* C14 as stated: every run of the web action reaches updateWeb(), whether
\* or not a release event fired and whatever createRelease did.
C14_AsStated ==
    (action = "web" /\ pc = "done") => updateWebCalled

\* C14, amended: a run of the web action calls updateWeb() whether or not a
\* release event fired, but after a release event only once createRelease
\* has succeeded; when createRelease throws or its PUT fails, updateWeb()
\* is never called.
C14_UpdateWebUnlessReleaseFails ==
    /\ (action = "web" /\ pc \in {"updateWeb", "done", "exited"}) =>
          (updateWebCalled <=>
              (eventName # "release" \/ \E i \in ReleaseCalls : calls[i].state = "ok"))
    /\ pc \in {"start", "createRelease"} => ~updateWebCalled
    /\ action # "web" => ~updateWebCalled

\* updateWeb() was reached after a release, and the run is over.
C14_Witness ==
    /\ action = "web"
    /\ eventName = "release"
    /\ pc = "done"
    /\ updateWebCalled
    /\ \E i \in ReleaseCalls : calls[i].state = "ok"

(* -------------------------------- C15 --------------------------------- *)
\* C15: with a configured action that is neither 'web' nor 'technic', run()
\* fails at once with the 'Invalid action' error and does nothing else:
\* createRelease, updateWeb and the build flow are not started and no
\* request is issued. (With no action configured at all, getInput fails
\* the same way with its missing-input error.)
C15_InvalidActionNoWork ==
    (action \notin {"web", "technic"} /\ pc # "start") =>
        /\ pc = "done"
        /\ run = Rejected(IF action = "" THEN InputRequired("action") ELSE InvalidAction)
        /\ calls = <<>>
        /\ promises = <<>>
        /\ all = Idle
        /\ log = <<Entry("setFailed", run.err.message, run.err.url)>>

C15_Witness ==
    /\ action = "deploy"
    /\ pc = "done"
    /\ run = Rejected(InvalidAction)
    /\ calls = <<>>
    /\ all = Idle

(* -------------------------------- C16 --------------------------------- *)
\* The requests of the branches that have something to send: one per page,
\* one for a pack.yml that parses, one for an assets directory.
ExpectedRequests ==
    (IF IsDir(pageDir) THEN Len(Entries(pageDir)) ELSE 0)
    + (IF existsSync(fs, packFile) /\ PackParses THEN 1 ELSE 0)
    + (IF IsDir(assetsDir) THEN 1 ELSE 0)

\* C16: updateWeb() is a fan-out: its requests are issued in one step, all
\* of them, before the response to any of them is taken: whenever the set of
\* its requests changes, it goes from empty to the requests of every branch
\* and each of them is still pending.
C16_FanOut ==
    [][WebCalls' # WebCalls =>
          /\ WebCalls = {}
          /\ Cardinality(WebCalls') = ExpectedRequests
          /\ \A i \in WebCalls' : calls'[i].state = "pending"
          /\ \A b \in DOMAIN promises' :
                promises'[b].call # 0 => promises'[b].state = "pending"]_vars

\* A request issued later has been answered while one issued earlier, and
\* one issued later still, are pending.
C16_Witness ==
    \E i, j, k \in WebCalls :
        /\ i < j /\ j < k
        /\ calls[i].state = "pending"
        /\ calls[j].state = "ok"
        /\ calls[k].state = "pending"
        /\ calls[i].url # calls[j].url

(* -------------------------------- C17 --------------------------------- *)
\* C17 (as stated): when a branch of updateWeb() has failed, every sibling
\* upload still in flight runs to its own completion or failure: the
\* process is there to take its response.
C17_AsStated ==
    (\E b \in DOMAIN promises : promises[b].state = "rejected") =>
        \A c \in DOMAIN promises : promises[c].state = "pending" => pc # "exited"

(* -------------------------------- C18 --------------------------------- *)
\* C18 (as stated): createRelease never issues PUT /pack/release/{tag}
\* with an empty tag, whatever release record it is given.
C18_AsStated ==
    \A i \in ReleaseCalls : calls[i].url[2] # ""

(* -------------------------------- C19 --------------------------------- *)
\* C19: every page file is parsed before any request of updateWeb() is
\* issued and before updateData and updateAssets are called: when a page
\* entry cannot be read or does not parse (or web/pages cannot be listed),
\* updateWeb() has failed (with the read or parse error when the token is
\* set) with no request issued, no branch started and neither
\* the metadata nor the assets function having run, whatever else is
\* present in the web directory.
C19_BadPageNoCalls ==
    (updateWebCalled /\ ~AllPagesParse) =>
        /\ all.state = "rejected"
        /\ web_token # "" => all.err \in {SyntaxError, YAMLError, EISDIR, ENOTDIR}
        /\ WebCalls = {}
        /\ promises = <<>>
        /\ \A k \in DOMAIN log :
              log[k].msg \notin {"Skip updating pack data", "No assets defined",
                                 "Updated pack data", "Updated assets"}

\* A page that parses listed before one that does not, pack.yml and the
\* assets directory present, the token set: updateWeb() failed on the
\* parse error with nothing issued.
C19_Witness ==
    /\ updateWebCalled
    /\ web_token # ""
    /\ \E p, q \in PagePaths : PageFileParses(p) /\ ~PageFileParses(q)
    /\ existsSync(fs, packFile) /\ PackParses
    /\ IsDir(assetsDir) /\ Len(Entries(assetsDir)) > 0
    /\ all = Rejected(SyntaxError)
    /\ WebCalls = {}

(* -------------------------------- C20 --------------------------------- *)
\* The number of log entries equal to e, and the requests of a set answered ok.
Count(e) == Cardinality({k \in DOMAIN log : log[k] = e})
Succeeded(S) == {i \in S : calls[i].state = "ok"}
Titles == {calls[i].body.value.title : i \in PageCalls}

\* C20: once updateWeb() is called the 'Updating web' group is open;
\* endGroup is logged exactly when updateWeb() has succeeded, so never in
\* an execution where it fails; and there are never more 'Updated pack
\* data', 'Updated assets' or 'Uploaded <title>' entries than PUTs of that
\* kind (and title) that have succeeded.
C20_GroupAndSuccessLogs ==
    /\ updateWebCalled => Count(Entry("startGroup", "Updating web", <<>>)) = 1
    /\ Logged("endGroup", "") <=> all.state = "fulfilled"
    /\ Count(Entry("info", "Updated pack data", <<>>)) <= Cardinality(Succeeded(DataCalls))
    /\ Count(Entry("info", "Updated assets", <<>>)) <= Cardinality(Succeeded(AssetsCalls))
    /\ \A k \in DOMAIN log : log[k].msg = "Uploaded" =>
          /\ log[k].arg \in {<<title>> : title \in Titles}
          /\ Count(log[k]) <=
                Cardinality({i \in Succeeded(PageCalls) :
                                /\ calls[i].body.value.kind # "null"
                                /\ <<calls[i].body.value.title>> = log[k].arg})

\* A failing execution: the pack data PUT succeeded and logged, a page PUT
\* failed, the group is open and not closed.
C20_Witness ==
    /\ all.state = "rejected"
    /\ Logged("startGroup", "Updating web")
    /\ ~Logged("endGroup", "")
    /\ Logged("info", "Updated pack data")
    /\ \E k \in DOMAIN log : log[k].msg = "Uploaded"
    /\ \E i \in PageCalls : calls[i].state = "failed"
====
